---- MODULE Spec2Model ----
(***************************************************************************)
(* sessionsTableLogic (kea logic with a kea-loaders loader and kea-router  *)
(* URL synchronisation) as a state machine.                                *)
(*                                                                         *)
(* One step of the machine is one turn of the browser's event loop: an     *)
(* action dispatched from outside together with every reducer and listener *)
(* it runs synchronously, a debounce timer expiring, or an HTTP response   *)
(* arriving.                                                               *)
(*                                                                         *)
(* Spec is the logic as it runs; NavSpec applies the navigation selectors  *)
(* to loaded session lists; PlayerSpec is the life of one SessionsPlayer   *)
(* component instance.                                                     *)
(***************************************************************************)
EXTENDS Integers, Sequences, FiniteSets, TLC

(* ------------------------------------------------------------------ *)
(* Bounds of the model                                                *)
(* ------------------------------------------------------------------ *)
MaxRuns == 3           \* listener runs (loadSessions, fetchNextSessions) alive together
MaxSessions == 2       \* length of the loaded session list

(* ------------------------------------------------------------------ *)
(* Optional values: null / undefined / absent is the empty sequence   *)
(* ------------------------------------------------------------------ *)
None == <<>>
Some(v) == <<v>>
IsSome(o) == o # <<>>
Get(o) == o[1]

\* JS truthiness of an optional number (0 is falsy), of an optional string
\* ('' is falsy) and of an optional array (every array is truthy).
TruthyNum(o) == IsSome(o) /\ Get(o) # 0
TruthyStr(o) == IsSome(o) /\ Get(o) # ""
TruthyObj(o) == IsSome(o)

(* ------------------------------------------------------------------ *)
(* Calendar days: a Moment at day granularity is a day of year 2021;  *)
(* format('YYYY-MM-DD') yields <<year, month, day>>.                  *)
(* ------------------------------------------------------------------ *)
Year == 2021
MonthLen(m) == IF m = 2 THEN 28 ELSE IF m \in {4, 6, 9, 11} THEN 30 ELSE 31

RECURSIVE DaysBefore(_)
DaysBefore(m) == IF m = 1 THEN 0 ELSE DaysBefore(m - 1) + MonthLen(m - 1)

MonthOf(doy) == CHOOSE m \in 1..12 : DaysBefore(m) < doy /\ doy <= DaysBefore(m) + MonthLen(m)

CalendarDate(doy) == <<Year, MonthOf(doy), doy - DaysBefore(MonthOf(doy))>>

\* moment('YYYY-MM-DD').startOf('day')
ParseDate(str) == DaysBefore(str[2]) + str[3]

\* moment().startOf('day'): 2021-05-02
Today == 122

\* the days that can be selected: yesterday and today
Days == {Today - 1, Today}

FormatTable == [doy \in Days |-> CalendarDate(doy)]
\* moment.format('YYYY-MM-DD')
Format(doy) == FormatTable[doy]

DateStrings == {Format(d) : d \in Days}

(* ------------------------------------------------------------------ *)
(* Values exchanged with the server and the URL                       *)
(* ------------------------------------------------------------------ *)
S1 == [id |-> "s1", session_recording_ids |-> <<"r1">>]
S2 == [id |-> "s2", session_recording_ids |-> <<"r2">>]

\* the pages a response can carry: a first page (offset 0) is empty or holds
\* S1, a following page is empty or holds S2
FirstPages == {<<>>, <<S1>>}
NextPages == {<<>>, <<S2>>}

\* offsets the server hands out for a following page: positive
Offsets == {20}
ResponseOffsets == {None} \cup {Some(o) : o \in Offsets}

PropertyLists == {<<>>, <<"p1">>}
RecordingIds == {"r1"}
PersonIdsProps == {None}

\* router.values.searchParams of the current location
URLs == [date : {None} \cup {Some(d) : d \in DateStrings \ {Format(Today)}},
         properties : {None} \cup {Some(p) : p \in PropertyLists},
         sessionRecordingId : {None} \cup {Some(r) : r \in RecordingIds}]

RECURSIVE Join(_)
Join(seq) == IF Len(seq) = 0 THEN <<>>
             ELSE IF Len(seq) = 1 THEN <<seq[1]>>
             ELSE <<seq[1], ",">> \o Join(Tail(seq))

\* JSON.stringify of an array of opaque filters
JSONstringify(seq) == <<"[">> \o Join(seq) \o <<"]">>

\* params.properties || []
OrEmpty(o) == IF TruthyObj(o) THEN Get(o) ELSE <<>>

(* ------------------------------------------------------------------ *)
(* State                                                              *)
(* ------------------------------------------------------------------ *)
VARIABLES
    sessions,            \* loader value: the loaded session list
    nextOffset,          \* pagination cursor, None when null
    isLoadingNext,       \* loading-next flag
    selectedDate,        \* None or Some(day)
    properties,          \* property filter list
    sessionRecordingId,  \* None or Some(recording id)
    searchParams,        \* router.values.searchParams
    personIds,           \* props.personIds of this logic instance
    loads,               \* loadSessions listener runs, oldest first; the last one
                         \* is the run the listener's breakpoint counter names
    fetches,             \* fetchNextSessions listener runs, likewise
    player               \* one instance of the SessionsPlayer component

logicVars == <<sessions, nextOffset, isLoadingNext, selectedDate, properties,
               sessionRecordingId, searchParams, personIds, loads, fetches>>

vars == <<sessions, nextOffset, isLoadingNext, selectedDate, properties,
          sessionRecordingId, searchParams, personIds, loads, fetches, player>>

\* A SessionsPlayer instance that has not been rendered yet: `events` is the
\* current prop, target the ref's `current`, deps the dependency list of the
\* effect as of the last render, pending the props the effect scheduled and
\* not yet run has closed over, widgets the rrwebPlayer instances created;
\* (history) mountProps are the props of the first render, renders counts
\* the re-renders.
PlayerNew ==
    [phase |-> "new", events |-> <<>>, target |-> None, deps |-> None, pending |-> None,
     widgets |-> <<>>, mountProps |-> <<>>, renders |-> 0]

\* The store as one value, so that a chain of synchronous dispatches can be
\* written as a composition of functions on it. log collects the names of
\* the actions dispatched during the step.
Store == [sessions |-> sessions, nextOffset |-> nextOffset, isLoadingNext |-> isLoadingNext,
          selectedDate |-> selectedDate, properties |-> properties,
          sessionRecordingId |-> sessionRecordingId, searchParams |-> searchParams,
          personIds |-> personIds, loads |-> loads, fetches |-> fetches, log |-> <<>>]

NoParams == [date_from |-> None, date_to |-> None, offset |-> None,
             distinct_id |-> None, properties |-> None]
\* A run of the loadSessions listener: where it is ("debounce": in
\* breakpoint(10); "request": awaiting api.get; then how it ended), its local
\* `params`, and (history) burst: the run was dispatched while the run before
\* it was still waiting in breakpoint(10).
LoadEnded(how) == [pc |-> how, params |-> NoParams, burst |-> FALSE]
\* A run of the fetchNextSessions listener: where it is ("request", then how
\* it ended), and (history) prevFilters: setFilters has replaced the filter
\* set since the run sent its request.
FetchEnded(how) == [pc |-> how, prevFilters |-> FALSE]

(* ------------------------------------------------------------------ *)
(* Reducers                                                           *)
(* ------------------------------------------------------------------ *)
AppendNewSessionsPrepends(state, newSessions) == newSessions \o state
\* sessions.appendNewSessions
AppendNewSessionsReducer(state, newSessions) == state \o newSessions

LoadSessionsFailureKeeps(state) == state
\* sessions.loadSessionsFailure
LoadSessionsFailureReducer(state) == <<>>

\* sessions.loadSessionsSuccess (kea-loaders: the loader's return value)
LoadSessionsSuccessReducer(state, result) == result

FetchNextSessionsKeepsFlag(state) == state
\* isLoadingNext.fetchNextSessions
IsLoadingNextOnFetch(state) == TRUE
\* isLoadingNext.appendNewSessions
IsLoadingNextOnAppend(state) == FALSE

\* nextOffset.setNextOffset and nextOffset.loadSessionsFailure
NextOffsetOnSet(state, offset) == offset
NextOffsetOnFailure(state) == None

(* ------------------------------------------------------------------ *)
(* Selectors and helpers                                              *)
(* ------------------------------------------------------------------ *)
\* selectedDate?.format('YYYY-MM-DD')
SelectedDateURLparam(s) == IF IsSome(s.selectedDate) THEN Some(Format(Get(s.selectedDate))) ELSE None

\* The query of a request is the object handed to toParams; an entry that is
\* undefined or null (None here) does not appear in the query string.

\* the query loadSessions builds
LoadParams(s) ==
    [date_from |-> SelectedDateURLparam(s),
     date_to |-> SelectedDateURLparam(s),
     offset |-> Some(0),
     distinct_id |-> IF IsSome(s.personIds) THEN Some(Get(s.personIds)[1]) ELSE Some(""),
     properties |-> Some(s.properties)]

\* the query fetchNextSessions builds
FetchParams(s) ==
    [date_from |-> SelectedDateURLparam(s),
     date_to |-> SelectedDateURLparam(s),
     offset |-> s.nextOffset,
     distinct_id |-> None,
     properties |-> None]

BuildURL(selectedDateURLparam, recordingId, currentSearchParams) ==
    [date |-> IF selectedDateURLparam # Some(Format(Today)) THEN selectedDateURLparam ELSE None,
     properties |-> IF TruthyObj(currentSearchParams.properties)
                    THEN currentSearchParams.properties ELSE None,
     sessionRecordingId |-> IF TruthyStr(recordingId) THEN recordingId ELSE None]

BreakpointNeverBreaks(calls, c) == TRUE
\* breakpoint(): the listener run c is still the latest run of its listener
BreakpointPasses(calls, c) == c = Len(calls)

LoadDebounceNeverBreaks(calls, c) == TRUE
\* await breakpoint(10) in loadSessions
LoadDebounceBreakpoint(calls, c) == BreakpointPasses(calls, c)

Logged(s, name) == [s EXCEPT !.log = Append(@, name)]

(* ------------------------------------------------------------------ *)
(* Synchronous dispatch chains                                        *)
(* ------------------------------------------------------------------ *)
DoSetNextOffset(s, offset) ==
    [Logged(s, "setNextOffset") EXCEPT !.nextOffset = NextOffsetOnSet(@, offset)]

\* loadSessions up to its first await: the run is registered with the
\* parameters read from the values at dispatch, and waits in breakpoint(10)
DoLoadSessions(s) ==
    [Logged(s, "loadSessions") EXCEPT
        !.loads = Append(@, [pc |-> "debounce", params |-> LoadParams(s),
                             burst |-> Len(@) > 0 /\ @[Len(@)].pc = "debounce"])]

SetFiltersListenerKeepsOffset(s) == DoLoadSessions(s)
\* listeners.setFilters
SetFiltersListener(s) == DoLoadSessions(DoSetNextOffset(s, None))

\* history: next-page requests in flight when the filter set is replaced were
\* issued under the previous filter set
MarkPrevFilters(calls) ==
    [c \in DOMAIN calls |->
        IF calls[c].pc = "request" THEN [calls[c] EXCEPT !.prevFilters = TRUE] ELSE calls[c]]

RECURSIVE DoSetFilters(_, _, _)
RECURSIVE DoSetSessionRecordingId(_, _)
RECURSIVE DoActionToUrl(_, _)
RECURSIVE DoUrlToAction(_, _)

UrlToActionAlwaysLoads(s, params) ==
    LET newDate == IF TruthyStr(params.date) THEN ParseDate(Get(params.date)) ELSE Today
        differs == \/ JSONstringify(OrEmpty(params.properties)) # JSONstringify(s.properties)
                   \/ /\ IsSome(s.selectedDate)
                      /\ Format(Get(s.selectedDate)) # Format(newDate)
        s1 == IF differs THEN DoSetFilters(s, OrEmpty(params.properties), Some(newDate))
              ELSE DoLoadSessions(s)
    IN  IF TruthyStr(params.sessionRecordingId)
           /\ params.sessionRecordingId # s1.sessionRecordingId
        THEN DoSetSessionRecordingId(s1, Get(params.sessionRecordingId))
        ELSE s1

\* urlToAction '*'
DoUrlToAction(s, params) ==
    LET newDate == IF TruthyStr(params.date) THEN ParseDate(Get(params.date)) ELSE Today
        differs == \/ JSONstringify(OrEmpty(params.properties)) # JSONstringify(s.properties)
                   \/ /\ IsSome(s.selectedDate)
                      /\ Format(Get(s.selectedDate)) # Format(newDate)
        s1 == IF differs THEN DoSetFilters(s, OrEmpty(params.properties), Some(newDate))
              ELSE IF Len(s.sessions) = 0 THEN DoLoadSessions(s)
              ELSE s
    IN  IF TruthyStr(params.sessionRecordingId)
           /\ params.sessionRecordingId # s1.sessionRecordingId
        THEN DoSetSessionRecordingId(s1, Get(params.sessionRecordingId))
        ELSE s1

\* kea-router: an actionToUrl entry pushes its URL when it differs from the
\* current location, and every location change runs urlToAction
DoActionToUrl(s, url) ==
    IF url # s.searchParams
    THEN DoUrlToAction([s EXCEPT !.searchParams = url], url)
    ELSE s

\* setFilters: reducers, listeners.setFilters, actionToUrl.setFilters
DoSetFilters(s, newProperties, newDate) ==
    LET s1 == [Logged(s, "setFilters") EXCEPT
                  !.properties = newProperties,
                  !.selectedDate = newDate,
                  !.fetches = MarkPrevFilters(@)]
        s2 == SetFiltersListener(s1)
    IN  DoActionToUrl(s2, BuildURL(SelectedDateURLparam(s2), s2.sessionRecordingId, s2.searchParams))

\* setSessionRecordingId: reducer, actionToUrl.setSessionRecordingId
DoSetSessionRecordingId(s, id) ==
    LET s1 == [Logged(s, "setSessionRecordingId") EXCEPT !.sessionRecordingId = Some(id)]
    IN  DoActionToUrl(s1, BuildURL(SelectedDateURLparam(s1), s1.sessionRecordingId, s1.searchParams))

\* closeSessionPlayer: reducer, actionToUrl.closeSessionPlayer
DoCloseSessionPlayer(s) ==
    LET s1 == [Logged(s, "closeSessionPlayer") EXCEPT !.sessionRecordingId = None]
    IN  DoActionToUrl(s1, BuildURL(SelectedDateURLparam(s1), None, s1.searchParams))

\* fetchNextSessions: reducer, then the listener up to its await: the
\* request FetchParams(s) leaves at once, with the cursor read at dispatch
DoFetchNextSessions(s) ==
    [Logged(s, "fetchNextSessions") EXCEPT
        !.isLoadingNext = IsLoadingNextOnFetch(@),
        !.fetches = Append(@, [pc |-> "request", prevFilters |-> FALSE])]

(* ------------------------------------------------------------------ *)
(* Steps                                                              *)
(* ------------------------------------------------------------------ *)
Finished(run) == run.pc \notin {"debounce", "request"}

\* A finished run that is no longer the latest run of its listener can
\* neither commit anything nor make another run stale: it is forgotten.
RECURSIVE Retire(_)
Retire(calls) ==
    IF Len(calls) <= 1 THEN calls
    ELSE IF Finished(Head(calls)) THEN Retire(Tail(calls))
    ELSE <<Head(calls)>> \o Retire(Tail(calls))

\* The local `params` of a run that has been superseded is dead: its request
\* has left already, or will never be sent.
Forget(calls) ==
    [c \in DOMAIN calls |->
        IF c < Len(calls) THEN [calls[c] EXCEPT !.params = NoParams, !.burst = FALSE]
        ELSE calls[c]]

WithinBounds(s) ==
    /\ Len(Retire(s.loads)) + Len(Retire(s.fetches)) <= MaxRuns
    /\ Len(s.sessions) <= MaxSessions

Commit(s) ==
    /\ WithinBounds(s)
    /\ sessions' = s.sessions
    /\ nextOffset' = s.nextOffset
    /\ isLoadingNext' = s.isLoadingNext
    /\ selectedDate' = s.selectedDate
    /\ properties' = s.properties
    /\ sessionRecordingId' = s.sessionRecordingId
    /\ searchParams' = s.searchParams
    /\ personIds' = s.personIds
    /\ loads' = Forget(Retire(s.loads))
    /\ fetches' = Retire(s.fetches)
    /\ player' = player

\* defaults of the reducers and of the loader, at the location `url`
Defaults(url, ids) ==
    [sessions |-> <<>>, nextOffset |-> None, isLoadingNext |-> FALSE,
     selectedDate |-> None, properties |-> <<>>, sessionRecordingId |-> None,
     searchParams |-> url, personIds |-> ids, loads |-> <<>>, fetches |-> <<>>,
     log |-> <<>>]

\* The logic is built and mounted at some location; kea-router runs
\* urlToAction for that location on mount.
Init ==
    \E url \in URLs, ids \in PersonIdsProps :
        \E s \in {DoUrlToAction(Defaults(url, ids), url)} :
            /\ WithinBounds(s)
            /\ sessions = s.sessions
            /\ nextOffset = s.nextOffset
            /\ isLoadingNext = s.isLoadingNext
            /\ selectedDate = s.selectedDate
            /\ properties = s.properties
            /\ sessionRecordingId = s.sessionRecordingId
            /\ searchParams = s.searchParams
            /\ personIds = s.personIds
            /\ loads = Forget(Retire(s.loads))
            /\ fetches = Retire(s.fetches)
            /\ player = PlayerNew

SetFilters(newProperties, newDate) ==
    \E s \in {DoSetFilters(Store, newProperties, Some(newDate))} : Commit(s)

\* listeners.previousDay
DoPreviousDay(s) ==
    DoSetFilters(Logged(s, "previousDay"), s.properties, Some(Get(s.selectedDate) - 1))

PreviousDay ==
    /\ IsSome(selectedDate)
    /\ Get(selectedDate) - 1 \in Days
    /\ \E s \in {DoPreviousDay(Store)} : Commit(s)

\* listeners.nextDay
DoNextDay(s) ==
    DoSetFilters(Logged(s, "nextDay"), s.properties, Some(Get(s.selectedDate) + 1))

NextDay ==
    /\ IsSome(selectedDate)
    /\ Get(selectedDate) + 1 \in Days
    /\ \E s \in {DoNextDay(Store)} : Commit(s)

SetSessionRecordingId(id) ==
    \E s \in {DoSetSessionRecordingId(Store, id)} : Commit(s)

CloseSessionPlayer ==
    \E s \in {DoCloseSessionPlayer(Store)} : Commit(s)

\* the location changes from outside this logic (navigation, back/forward,
\* another component pushing a URL): the router stores it and runs urlToAction
DoLocationChanged(s, url) == DoUrlToAction([s EXCEPT !.searchParams = url], url)

LocationChanged(url) ==
    \E s \in {DoLocationChanged(Store, url)} : Commit(s)

FetchNextSessions ==
    \E s \in {DoFetchNextSessions(Store)} : Commit(s)

Debouncing(calls) == {c \in DOMAIN calls : calls[c].pc = "debounce"}

\* the oldest run waiting in breakpoint(10): timers of equal delay expire in
\* the order they were set
OldestDebouncing(calls) == CHOOSE c \in Debouncing(calls) : \A d \in Debouncing(calls) : c <= d

\* loadSessions, from the end of breakpoint(10) to `await api.get(...)`
DoLoadDebounceElapsed(s, c) ==
    IF LoadDebounceBreakpoint(s.loads, c)
    THEN [s EXCEPT !.loads[c].pc = "request"]
    ELSE [s EXCEPT !.loads[c] = LoadEnded("abandoned")]

LoadDebounceElapsed ==
    /\ Debouncing(loads) # {}
    /\ \E s \in {DoLoadDebounceElapsed(Store, OldestDebouncing(loads))} : Commit(s)

\* loadSessions from the response of api.get to the end, with the success
\* and failure actions kea-loaders dispatches for the loader
DoLoadResponse(s, c, ok, result, offset) ==
    IF ok
    THEN IF BreakpointPasses(s.loads, c)
         THEN LET s1 == IF TruthyNum(offset) THEN DoSetNextOffset(s, offset) ELSE s
              IN  [Logged(s1, "loadSessionsSuccess") EXCEPT
                      !.sessions = LoadSessionsSuccessReducer(@, result),
                      !.loads[c] = LoadEnded("succeeded")]
         ELSE [s EXCEPT !.loads[c] = LoadEnded("discarded")]
    ELSE [Logged(s, "loadSessionsFailure") EXCEPT
             !.sessions = LoadSessionsFailureReducer(@),
             !.nextOffset = NextOffsetOnFailure(@),
             !.loads[c] = LoadEnded("failed")]

\* the responses a request can get: a page, with an offset only when more
\* follows it, or a failure
Responses(pages) ==
    {r \in [ok : {TRUE}, result : pages, offset : ResponseOffsets] :
        r.result = <<>> => r.offset = None}
    \cup [ok : {FALSE}, result : {<<>>}, offset : {None}]

LoadResponse(c, r) ==
    /\ c \in DOMAIN loads
    /\ loads[c].pc = "request"
    /\ \E s \in {DoLoadResponse(Store, c, r.ok, r.result, r.offset)} : Commit(s)

\* listeners.fetchNextSessions from the response of api.get to the end
DoFetchResponse(s, c, ok, result, offset) ==
    IF ok
    THEN IF BreakpointPasses(s.fetches, c)
         THEN LET s1 == IF TruthyNum(offset) THEN DoSetNextOffset(s, offset)
                        ELSE DoSetNextOffset(s, None)
              IN  [Logged(s1, "appendNewSessions") EXCEPT
                      !.sessions = AppendNewSessionsReducer(@, result),
                      !.isLoadingNext = IsLoadingNextOnAppend(@),
                      !.fetches[c] = FetchEnded("succeeded")]
         ELSE [s EXCEPT !.fetches[c] = FetchEnded("discarded")]
    ELSE [s EXCEPT !.fetches[c] = FetchEnded("failed")]

FetchResponse(c, r) ==
    /\ c \in DOMAIN fetches
    /\ fetches[c].pc = "request"
    /\ \E s \in {DoFetchResponse(Store, c, r.ok, r.result, r.offset)} : Commit(s)

Next ==
    \/ \E p \in PropertyLists, d \in Days : SetFilters(p, d)
    \/ PreviousDay
    \/ NextDay
    \/ \E id \in RecordingIds : SetSessionRecordingId(id)
    \/ CloseSessionPlayer
    \/ \E url \in URLs : LocationChanged(url)
    \/ FetchNextSessions
    \/ LoadDebounceElapsed
    \/ \E c \in 1..MaxRuns, r \in Responses(FirstPages) : LoadResponse(c, r)
    \/ \E c \in 1..MaxRuns, r \in Responses(NextPages) : FetchResponse(c, r)

Spec == Init /\ [][Next]_vars

(* ------------------------------------------------------------------ *)
(* Properties                                                         *)
(* ------------------------------------------------------------------ *)
InFlight(calls) == {c \in DOMAIN calls : calls[c].pc = "request"}
Latest(calls) == calls[Len(calls)]
Superseded(calls, c) == c < Len(calls)

\* C1: a loadSessions run that a later loadSessions dispatch has superseded
\* changes neither the session list nor the cursor, whether its debounce
\* ends, its request succeeds or its request fails.
C1_SupersededLoadCommitsNothing ==
    [][/\ (LoadDebounceElapsed /\ Superseded(loads, OldestDebouncing(loads)))
            => (sessions' = sessions /\ nextOffset' = nextOffset)
       /\ \A c \in DOMAIN loads : \A r \in Responses(FirstPages) :
            (Superseded(loads, c) /\ LoadResponse(c, r))
                => (sessions' = sessions /\ nextOffset' = nextOffset)]_vars

\* C2: when the latest loadSessions request succeeds with result R and
\* offset o, the session list becomes R and the cursor becomes o (null when
\* the response carries no offset).
C2_LatestLoadSuccessSetsListAndCursor ==
    [][\A c \in DOMAIN loads : \A r \in Responses(FirstPages) :
            (r.ok /\ ~Superseded(loads, c) /\ LoadResponse(c, r))
                => (sessions' = r.result /\ nextOffset' = r.offset)]_vars

\* C3: when a fetchNextSessions request fails, isLoadingNext becomes false
\* and the session list stays as it was.
C3_FailedFetchStopsLoadingNext ==
    [][\A c \in DOMAIN fetches : \A r \in Responses(NextPages) :
            (~r.ok /\ FetchResponse(c, r))
                => (isLoadingNext' = FALSE /\ sessions' = sessions)]_vars

\* C4: when a fetchNextSessions request that has not been superseded succeeds
\* with page P and offset o, the session list becomes the previous list
\* followed by P, the cursor becomes o (null when the response carries no
\* offset) and isLoadingNext becomes false.
C4_LatestFetchSuccessAppends ==
    [][\A c \in DOMAIN fetches : \A r \in Responses(NextPages) :
            (r.ok /\ ~Superseded(fetches, c) /\ FetchResponse(c, r))
                => /\ sessions' = sessions \o r.result
                   /\ nextOffset' = r.offset
                   /\ isLoadingNext' = FALSE]_vars

\* C4 witness: the latest next-page request has succeeded and its page S2 was
\* appended to the loaded S1, the response carrying no offset.
C4_Witness ==
    /\ Len(fetches) > 0
    /\ Latest(fetches).pc = "succeeded"
    /\ sessions = <<S1, S2>>
    /\ nextOffset = None
    /\ isLoadingNext = FALSE

\* C5: no response to a fetchNextSessions request that was issued before
\* setFilters replaced the filter set is appended to the session list or
\* written to the cursor.
C5_PreviousFilterFetchCommitsNothing ==
    [][\A c \in DOMAIN fetches : \A r \in Responses(NextPages) :
            (fetches[c].prevFilters /\ FetchResponse(c, r))
                => (sessions' = sessions /\ nextOffset' = nextOffset)]_vars

RanSetFilters(s) == \E i \in DOMAIN s.log : s.log[i] = "setFilters"

\* C6: setFilters, dispatched in any state, whatever is in flight and by
\* whatever route (a filter change, a day step, a location change, a recording
\* selected or closed), ends with a null cursor; and a null cursor stays null
\* until the response of a successful fetch (loadSessions or
\* fetchNextSessions) sets it.
C6_CursorNullFromSetFiltersUntilFetch ==
    /\ [](/\ \A p \in PropertyLists, d \in Days :
                DoSetFilters(Store, p, Some(d)).nextOffset = None
          /\ (IsSome(selectedDate) /\ Get(selectedDate) - 1 \in Days)
                => DoPreviousDay(Store).nextOffset = None
          /\ (IsSome(selectedDate) /\ Get(selectedDate) + 1 \in Days)
                => DoNextDay(Store).nextOffset = None
          /\ \A url \in URLs :
                RanSetFilters(DoLocationChanged(Store, url))
                    => DoLocationChanged(Store, url).nextOffset = None
          /\ \A id \in RecordingIds :
                RanSetFilters(DoSetSessionRecordingId(Store, id))
                    => DoSetSessionRecordingId(Store, id).nextOffset = None
          /\ RanSetFilters(DoCloseSessionPlayer(Store))
                => DoCloseSessionPlayer(Store).nextOffset = None)
    /\ [][(nextOffset = None /\ nextOffset' # None)
            => \/ \E c \in DOMAIN loads : \E r \in Responses(FirstPages) :
                    r.ok /\ LoadResponse(c, r)
               \/ \E c \in DOMAIN fetches : \E r \in Responses(NextPages) :
                    r.ok /\ FetchResponse(c, r)]_vars

\* C6 witness: setFilters has run over a loaded list while a next-page
\* request was in flight; the cursor is null, the new load is still waiting.
C6_Witness ==
    /\ nextOffset = None
    /\ sessions # <<>>
    /\ \E c \in InFlight(fetches) : fetches[c].prevFilters
    /\ Len(loads) > 0
    /\ Latest(loads).pc = "debounce"

\* C7: when the latest loadSessions request fails, the session list becomes
\* empty, the cursor becomes null and isLoadingNext keeps its value.
C7_LatestLoadFailureClears ==
    [][\A c \in DOMAIN loads : \A r \in Responses(FirstPages) :
            (~r.ok /\ ~Superseded(loads, c) /\ LoadResponse(c, r))
                => /\ sessions' = <<>>
                   /\ nextOffset' = None
                   /\ isLoadingNext' = isLoadingNext]_vars

\* C7 witness: the latest load has failed while isLoadingNext was true; the
\* list is empty, the cursor null, and isLoadingNext is still true.
C7_Witness ==
    /\ Len(loads) > 0
    /\ Latest(loads).pc = "failed"
    /\ sessions = <<>>
    /\ nextOffset = None
    /\ isLoadingNext = TRUE

\* C8: a loadSessions run that is superseded before its debounce delay has
\* elapsed sends no request; the last run of such a burst sends exactly one,
\* with the filter set of its dispatch (the filter set can only change in
\* setFilters, which dispatches loadSessions again, so for the latest run it
\* is the filter set still current); and a load request is sent in no other
\* step.
C8_DebounceCollapsesBurst ==
    [][/\ LoadDebounceElapsed =>
            IF Superseded(loads, OldestDebouncing(loads))
            THEN Cardinality(InFlight(loads')) = Cardinality(InFlight(loads))
            ELSE /\ Cardinality(InFlight(loads')) = Cardinality(InFlight(loads)) + 1
                 /\ Latest(loads').pc = "request"
                 /\ Latest(loads').params = Latest(loads).params
                 /\ Latest(loads').params = LoadParams(Store)
       /\ Cardinality(InFlight(loads')) > Cardinality(InFlight(loads))
            => LoadDebounceElapsed]_vars

\* C8 witness: a burst of dispatches has collapsed: the only run alive is the
\* last of the burst, and its request is in flight.
C8_Witness ==
    /\ Len(loads) = 1
    /\ loads[1].pc = "request"
    /\ loads[1].burst

\* C9 as stated: whenever any next-page request is in flight, isLoadingNext
\* is true.
C9_AnyFetchInFlightImpliesLoadingNext ==
    InFlight(fetches) # {} => isLoadingNext = TRUE

\* C9 amended: whenever the request of the latest fetchNextSessions dispatch
\* is in flight, isLoadingNext is true.
C9_LatestFetchInFlightImpliesLoadingNext ==
    (Len(fetches) > 0 /\ Latest(fetches).pc = "request") => isLoadingNext = TRUE

\* C9 witness: two next-page requests overlap, the latest still in flight.
C9_Witness ==
    /\ Len(fetches) = 2
    /\ fetches[1].pc = "request"
    /\ fetches[2].pc = "request"
    /\ isLoadingNext = TRUE

\* C10: dispatching fetchNextSessions while the cursor is null sends no
\* request.
C10_NullCursorFetchSendsNothing ==
    [][(nextOffset = None /\ FetchNextSessions)
            => Cardinality(InFlight(fetches')) = Cardinality(InFlight(fetches))]_vars

\* the filter state an inbound URL decodes to
DecodedDate(params) == IF TruthyStr(params.date) THEN ParseDate(Get(params.date)) ELSE Today
DecodedProperties(params) == OrEmpty(params.properties)
RanLoadSessions(s) == \E i \in DOMAIN s.log : s.log[i] = "loadSessions"

\* C11: on every inbound URL change, if the decoded date (today when absent)
\* or the decoded property list (empty when absent) differs from the selected
\* date or property list, the selected date being unset included, setFilters
\* runs and the filter state ends equal to the URL's; otherwise loadSessions
\* is dispatched exactly when the session list is empty.
C11_InboundUrlReconcilesFilters ==
    [][\A url \in URLs : LocationChanged(url) =>
            IF \/ selectedDate # Some(DecodedDate(url))
               \/ properties # DecodedProperties(url)
            THEN /\ RanSetFilters(DoLocationChanged(Store, url))
                 /\ selectedDate' = Some(DecodedDate(url))
                 /\ properties' = DecodedProperties(url)
            ELSE RanLoadSessions(DoLocationChanged(Store, url)) <=> (sessions = <<>>)]_vars

\* the URL actionToUrl builds for the state s
EncodedURL(s) == BuildURL(SelectedDateURLparam(s), s.sessionRecordingId, s.searchParams)

\* C12: in every state, encoding the state into URL parameters (buildURL, as
\* actionToUrl calls it) and decoding those parameters (urlToAction) yields
\* the same selected date, the same property filter list and the same
\* selected recording.
C12_UrlRoundTrip ==
    /\ DoLocationChanged(Store, EncodedURL(Store)).selectedDate = selectedDate
    /\ DoLocationChanged(Store, EncodedURL(Store)).properties = properties
    /\ DoLocationChanged(Store, EncodedURL(Store)).sessionRecordingId = sessionRecordingId

\* the properties parameter the claim expects for a filter list
PropertiesParam(list) == IF list = <<>> THEN None ELSE Some(list)

\* the state in which actionToUrl runs for an action: after its reducers
AfterSetFiltersReducers(s, newProperties, newDate) ==
    [s EXCEPT !.properties = newProperties, !.selectedDate = newDate]
AfterSetSessionRecordingIdReducer(s, id) == [s EXCEPT !.sessionRecordingId = Some(id)]
AfterCloseSessionPlayerReducer(s) == [s EXCEPT !.sessionRecordingId = None]

\* the URL is rewritten when the URL built differs from the current one
Rewrites(s) == EncodedURL(s) # s.searchParams

\* C13: whenever setFilters, setSessionRecordingId or closeSessionPlayer
\* rewrites the URL, the properties parameter written is absent when the
\* filter list is empty and is the filter list otherwise.
C13_OutboundUrlCarriesFilterList ==
    /\ \A p \in PropertyLists, d \in Days :
            Rewrites(AfterSetFiltersReducers(Store, p, Some(d)))
                => EncodedURL(AfterSetFiltersReducers(Store, p, Some(d))).properties
                        = PropertiesParam(p)
    /\ \A id \in RecordingIds :
            Rewrites(AfterSetSessionRecordingIdReducer(Store, id))
                => EncodedURL(AfterSetSessionRecordingIdReducer(Store, id)).properties
                        = PropertiesParam(properties)
    /\ Rewrites(AfterCloseSessionPlayerReducer(Store))
            => EncodedURL(AfterCloseSessionPlayerReducer(Store)).properties
                    = PropertiesParam(properties)

\* C14: on every inbound URL change, if the recording id of the URL (absent
\* meaning no selection) differs from the selected recording, the selection
\* becomes the URL's, whether or not setFilters ran for the same change.
C14_InboundUrlUpdatesSelection ==
    [][\A url \in URLs :
            (LocationChanged(url) /\ url.sessionRecordingId # sessionRecordingId)
                => sessionRecordingId' = url.sessionRecordingId]_vars

(* ------------------------------------------------------------------ *)
(* Recording navigation (selectors)                                   *)
(* ------------------------------------------------------------------ *)
MaxNavSessions == 3    \* length of the session lists the selectors are applied to

\* selectors.orderedSessionRecordingIds: sessions.flatMap(...)
RECURSIVE OrderedSessionRecordingIds(_)
OrderedSessionRecordingIds(list) ==
    IF list = <<>> THEN <<>>
    ELSE Head(list).session_recording_ids \o OrderedSessionRecordingIds(Tail(list))

\* Array.prototype.indexOf, scanning from position `from` (0-based); -1 when
\* the element does not occur
RECURSIVE IndexOfFrom(_, _, _)
IndexOfFrom(seq, x, from) ==
    IF from >= Len(seq) THEN -1
    ELSE IF seq[from + 1] = x THEN from
    ELSE IndexOfFrom(seq, x, from + 1)

\* Array.prototype.lastIndexOf
LastIndexOf(seq, x) ==
    IF \E i \in DOMAIN seq : seq[i] = x
    THEN (CHOOSE i \in DOMAIN seq : seq[i] = x /\ \A j \in DOMAIN seq : seq[j] = x => j <= i) - 1
    ELSE -1

IndexOf(seq, x) == IndexOfFrom(seq, x, 0)

\* selectors.sessionRecordingNavigation; an absent field is None
SessionRecordingNavigation(recordings, recordingId) ==
    IF recordingId = None
    THEN [next |-> None, prev |-> None]
    ELSE LET index == IndexOf(recordings, Get(recordingId))
         IN  [next |-> IF index # -1 /\ index < Len(recordings) - 1
                       THEN Some(recordings[(index + 1) + 1]) ELSE None,
              prev |-> IF index > 0 THEN Some(recordings[(index - 1) + 1]) ELSE None]

\* values.sessionRecordingNavigation
Navigation == SessionRecordingNavigation(OrderedSessionRecordingIds(sessions), sessionRecordingId)

\* sessions of no, one and two recordings
S0 == [id |-> "s0", session_recording_ids |-> <<>>]
S3 == [id |-> "s3", session_recording_ids |-> <<"r3", "r4">>]
NavSessions == {S0, S1, S2, S3}

RECURSIVE ListsUpTo(_, _)
ListsUpTo(pool, n) ==
    IF n = 0 THEN {<<>>}
    ELSE ListsUpTo(pool, n - 1)
            \cup {Append(l, x) : l \in {k \in ListsUpTo(pool, n - 1) : Len(k) = n - 1}, x \in pool}

\* the selections: none, a recording of a session, a recording of no session
NavSelections == {None} \cup {Some(r) : r \in {"r1", "r2", "r3", "r4", "r9"}}

\* A session list has been loaded (a page, then further pages appended; the
\* server hands out a page as it is at the time of the request, so a session
\* can come twice) and a recording may be selected.
NavInit ==
    \E list \in ListsUpTo(NavSessions, MaxNavSessions), selected \in NavSelections :
        /\ sessions = list
        /\ sessionRecordingId = selected
        /\ searchParams = [date |-> None, properties |-> None, sessionRecordingId |-> selected]
        /\ nextOffset = None
        /\ isLoadingNext = FALSE
        /\ selectedDate = None
        /\ properties = <<>>
        /\ personIds = None
        /\ loads = <<LoadEnded("succeeded")>>
        /\ fetches = <<>>
        /\ player = PlayerNew

NavCommit(s) ==
    /\ sessions' = s.sessions
    /\ nextOffset' = s.nextOffset
    /\ isLoadingNext' = s.isLoadingNext
    /\ selectedDate' = s.selectedDate
    /\ properties' = s.properties
    /\ sessionRecordingId' = s.sessionRecordingId
    /\ searchParams' = s.searchParams
    /\ personIds' = s.personIds
    /\ loads' = s.loads
    /\ fetches' = s.fetches
    /\ player' = player

\* the player's "next" and "previous" controls: setSessionRecordingId with
\* the id the navigation gives
SelectNext ==
    /\ IsSome(Navigation.next)
    /\ \E s \in {DoSetSessionRecordingId(Store, Get(Navigation.next))} : NavCommit(s)

SelectPrev ==
    /\ IsSome(Navigation.prev)
    /\ \E s \in {DoSetSessionRecordingId(Store, Get(Navigation.prev))} : NavCommit(s)

NavNext == SelectNext \/ SelectPrev

NavSpec == NavInit /\ [][NavNext]_vars

\* C15: navigation symmetry: whenever the navigation of the selected
\* recording X gives a next id Y, selecting Y gives a navigation whose prev
\* is X.
C15_NavigationSymmetry ==
    [][SelectNext =>
        SessionRecordingNavigation(OrderedSessionRecordingIds(sessions'), sessionRecordingId').prev
            = sessionRecordingId]_vars

\* the number of recording ids of the first k sessions of a list
RECURSIVE IdsWithin(_, _)
IdsWithin(list, k) ==
    IF k = 0 THEN 0 ELSE IdsWithin(list, k - 1) + Len(list[k].session_recording_ids)

\* recs is the concatenation, in list order, of the sessions' recording ids
IsConcatenation(recs, list) ==
    /\ Len(recs) = IdsWithin(list, Len(list))
    /\ \A k \in DOMAIN list : \A j \in DOMAIN list[k].session_recording_ids :
            recs[IdsWithin(list, k - 1) + j] = list[k].session_recording_ids[j]

Occurs(recs, id) == \E i \in DOMAIN recs : recs[i] = id
FirstPosition(recs, id) ==
    CHOOSE i \in DOMAIN recs : recs[i] = id /\ \A j \in 1..(i - 1) : recs[j] # id

\* the neighbours of position i of recs
NeighboursAt(recs, i) ==
    [next |-> IF i < Len(recs) THEN Some(recs[i + 1]) ELSE None,
     prev |-> IF i > 1 THEN Some(recs[i - 1]) ELSE None]

MaxEvents == 2         \* length of the events prop
MaxRenders == 2        \* re-renders of one instance

Events == {"e1", "e2"}
EventLists == ListsUpTo(Events, MaxEvents)

EffectDepsOnEvents(props) == <<props>>
\* the dependency list of the effect: []
EffectDeps(props) == <<>>

\* the function body: useRef keeps the ref, useEffect schedules the effect
\* (closing over the props of this render) on the first render and whenever
\* the dependency list differs from the one of the render before
DoRender(p, props) ==
    [p EXCEPT !.events = props,
              !.pending = IF p.deps = None \/ Get(p.deps) # EffectDeps(props)
                          THEN Some(props) ELSE @,
              !.deps = Some(EffectDeps(props))]

\* React attaches the rendered <div ref={target} id='sessions-player'>
DoCommitRef(p) == [p EXCEPT !.target = Some("sessions-player")]

\* React runs the scheduled effect: the body of the useEffect callback
DoFlushEffects(p) ==
    IF IsSome(p.pending)
    THEN [p EXCEPT !.widgets = IF IsSome(p.target)
                               THEN Append(@, [target |-> Get(p.target),
                                               events |-> Get(p.pending),
                                               autoPlay |-> TRUE])
                               ELSE @,
                   !.pending = None]
    ELSE p

PlayerInit ==
    /\ player = PlayerNew
    /\ sessions = <<>>
    /\ nextOffset = None
    /\ isLoadingNext = FALSE
    /\ selectedDate = None
    /\ properties = <<>>
    /\ sessionRecordingId = None
    /\ searchParams = [date |-> None, properties |-> None, sessionRecordingId |-> None]
    /\ personIds = None
    /\ loads = <<>>
    /\ fetches = <<>>

\* the instance is rendered for the first time and committed
Mount(props) ==
    /\ player.phase = "new"
    /\ player' = [DoCommitRef(DoRender(player, props)) EXCEPT
                      !.phase = "mounted", !.mountProps = props]
    /\ UNCHANGED logicVars

\* the effects scheduled by the last commit run
FlushEffects ==
    /\ player.phase = "mounted"
    /\ IsSome(player.pending)
    /\ player' = DoFlushEffects(player)
    /\ UNCHANGED logicVars

\* the parent renders the instance again, with the same or other events;
\* React runs the effects still scheduled before it renders
Rerender(props) ==
    /\ player.phase = "mounted"
    /\ player.renders < MaxRenders
    /\ player' = [DoCommitRef(DoRender(DoFlushEffects(player), props)) EXCEPT
                      !.renders = @ + 1]
    /\ UNCHANGED logicVars

\* the instance is removed; the effect returns no cleanup
Unmount ==
    /\ player.phase = "mounted"
    /\ player' = [DoFlushEffects(player) EXCEPT !.phase = "unmounted", !.target = None]
    /\ UNCHANGED logicVars

PlayerNext ==
    \/ \E props \in EventLists : Mount(props)
    \/ FlushEffects
    \/ \E props \in EventLists : Rerender(props)
    \/ Unmount

PlayerSpec == PlayerInit /\ [][PlayerNext]_vars

\* C16: over the lifetime of one SessionsPlayer instance, whatever the
\* re-renders and the events passed to them, no widget exists before the
\* effect of the mount has run, and from then on exactly one widget exists:
\* the one created on the container with the events passed at mount and
\* autoplay on.
C16_OneWidgetPerLifetime ==
    IF player.phase = "new" \/ IsSome(player.pending)
    THEN player.widgets = <<>> /\ player.renders = 0
    ELSE player.widgets = <<[target |-> "sessions-player",
                             events |-> player.mountProps,
                             autoPlay |-> TRUE]>>

\* C16 witness: the instance has been re-rendered, the last time with events
\* other than those of the mount, and has then been removed.
C16_Witness ==
    /\ player.phase = "unmounted"
    /\ player.renders = MaxRenders
    /\ player.events # player.mountProps
    /\ Len(player.widgets) = 1

\* C17: the response to a fetchNextSessions request that a later
\* fetchNextSessions dispatch has superseded, whenever it arrives and
\* whatever it is, neither appends to the session list nor changes the
\* cursor; so of overlapping next-page requests only the latest can append
\* its page.
C17_SupersededFetchCommitsNothing ==
    [][\A c \in DOMAIN fetches : \A r \in Responses(NextPages) :
            (Superseded(fetches, c) /\ FetchResponse(c, r))
                => (sessions' = sessions /\ nextOffset' = nextOffset)]_vars

\* C17 witness: of two overlapping next-page requests the later has been
\* answered and its page appended, once; the earlier, superseded one is
\* still awaiting its response.
C17_Witness ==
    /\ Len(fetches) = 2
    /\ fetches[1].pc = "request"
    /\ fetches[2].pc = "succeeded"
    /\ sessions = <<S1, S2>>

\* C18: an inbound URL change whose decoded date and property list equal the
\* selected date and the property list, while sessions are loaded, dispatches
\* neither setFilters nor loadSessions and leaves the session list and the
\* cursor as they were.
C18_InboundUrlWithSameFiltersFetchesNothing ==
    [][\A url \in URLs :
            (/\ selectedDate = Some(DecodedDate(url))
             /\ properties = DecodedProperties(url)
             /\ sessions # <<>>
             /\ LocationChanged(url))
                => /\ ~RanSetFilters(DoLocationChanged(Store, url))
                   /\ ~RanLoadSessions(DoLocationChanged(Store, url))
                   /\ sessions' = sessions
                   /\ nextOffset' = nextOffset]_vars

\* C18 witness: with two pages loaded for yesterday and the cursor set, the
\* location has changed to a URL of the same filters without the recording
\* id (the selection only leaves the URL on an inbound change); the list and
\* the cursor are still there and no load is under way.
C18_Witness ==
    /\ sessions = <<S1, S2>>
    /\ nextOffset = Some(20)
    /\ selectedDate = Some(Today - 1)
    /\ searchParams.date = Some(Format(Today - 1))
    /\ sessionRecordingId = Some("r1")
    /\ searchParams.sessionRecordingId = None
    /\ Latest(loads).pc = "succeeded"
    /\ InFlight(fetches) = {}

\* the filter set a query asks the server for: no properties entry and an
\* empty list both filter nothing, no distinct_id and '' both name nobody
FilterSetOf(params) ==
    [date_from |-> params.date_from,
     date_to |-> params.date_to,
     properties |-> OrEmpty(params.properties),
     distinct_id |-> IF TruthyStr(params.distinct_id) THEN Get(params.distinct_id) ELSE ""]

\* C20: the request a fetchNextSessions dispatch sends for a further page
\* (the cursor is set) carries the filter set
\* (date, property filters, distinct_id) of the loadSessions request that
\* loaded the current list. (That request is the one of the latest
\* loadSessions run; the filters have not changed since its dispatch, so its
\* query is the one loadSessions builds from the current values.)
C20_NextPageCarriesFilterSet ==
    [][(/\ Len(loads) > 0
        /\ Latest(loads).pc = "succeeded"
        /\ IsSome(nextOffset)
        /\ FetchNextSessions)
            => FilterSetOf(FetchParams(Store)) = FilterSetOf(LoadParams(Store))]_vars

====
